---- MODULE Spec2Model ----
(***************************************************************************)
(* A model of the Blender importer of Sofa.BlenderToolbox                  *)
(* (src/blender_importer.py): the motion-log parser, the recording         *)
(* inspector, the track builders, the mesh cache and the import_scene      *)
(* coordinator with its thread pool; and of the recording side             *)
(* (src/animation_exporter.py): the manifest accumulator, the components   *)
(* it adds to the simulation's nodes and the export of the manifest.       *)
(*                                                                         *)
(* Conventions.  An optional value (dict.get(key, None), an unbound local) *)
(* is a sequence of length 0 or 1.  A text line is the sequence of its     *)
(* whitespace-separated tokens; a token is a record [k, v] with            *)
(* k = "num" (a digit-only token of value v), k = "word" (any other text)  *)
(* or k = "hash" (a word that begins with '#').  A file is the sequence of *)
(* its lines.  Numbers are integers; a float holding an integer value is   *)
(* that integer.                                                           *)
(***************************************************************************)
EXTENDS Integers, Sequences, FiniteSets, TLC

\* ------------------------------------------------------------------ bounds

\* Longest manifest (number of [[objects]] blocks) drawn by Init.
MaxObjects == 2

\* Most data rows of a motion log drawn by InitParse.
MaxRows == 3

\* Largest downsample stride drawn by InitParse.
MaxStride == 3

\* Largest particle count written in a header drawn by InitParse.
MaxParticles == 2

\* ----------------------------------------------------------------- helpers

None == <<>>

Some(x) == <<x>>

Min(a, b) == IF a < b THEN a ELSE b

\* s[a:b] of Python for 0 <= a, 0 <= b (0-based, b exclusive), clamped.
Slice(s, a, b) == [i \in 1..(IF Min(b, Len(s)) > a THEN Min(b, Len(s)) - a ELSE 0) |-> s[a + i]]

\* s[start::step] of Python (0-based start, step >= 1).
Stride(s, start, step) == [i \in 1..(IF Len(s) > start THEN ((Len(s) - start - 1) \div step) + 1 ELSE 0) |-> s[start + (i - 1) * step + 1]]

\* zip(*rows) of Python: the transpose, truncated to the shortest row; no row, no column.
ZipStar(rows) == IF rows = <<>> THEN <<>> ELSE LET n == CHOOSE m \in {Len(rows[i]) : i \in DOMAIN rows} : \A j \in DOMAIN rows : m <= Len(rows[j]) IN [c \in 1..n |-> [r \in 1..Len(rows) |-> rows[r][c]]]

\* Most calls of import_mesh_cached in a sequence drawn on its own.
MaxCalls == 4

\* Most objects registered with the exporter in one process.
MaxRegistrations == 2

\* ------------------------------------------------------------ text tokens

Num(v) == [k |-> "num", v |-> v]

Word == [k |-> "word", v |-> 0]

Hash == [k |-> "hash", v |-> 0]

\* str.isdigit()
IsDigit(tok) == tok.k = "num"

\* float(x) and int(x) succeed exactly on the numeric tokens of this model.
AllNum(toks) == \A i \in DOMAIN toks : IsDigit(toks[i])

Values(toks) == [i \in DOMAIN toks |-> toks[i].v]

\* line.startswith('#')
IsComment(line) == Len(line) > 0 /\ line[1].k = "hash"

\* l.strip() is the empty string
IsBlank(line) == line = <<>>

\* --------------------------------------------------------------- results

\* What a call returns: a value, or the exception it raised.
Ok(v) == [ok |-> TRUE, err |-> "", val |-> v]

Raise(e) == [ok |-> FALSE, err |-> e, val |-> <<>>]

\* ------------------------------------------------------ parse_monitor_file

\* A slip in line 66: the quaternion is kept in the order of the file (x, y, z, w).
ParseRowDiskOrder(line, type) ==
  LET d == Values(Tail(line))
  IN  IF ~AllNum(line) THEN Raise("ValueError")
      ELSE IF type = "deformable"
        THEN Ok(<<line[1].v, ZipStar(<<Stride(d, 0, 3), Stride(d, 1, 3), Stride(d, 2, 3)>>) >>)
      ELSE IF type = "rigid"
        THEN IF d = <<>> THEN Raise("IndexError")
             ELSE Ok(<<line[1].v, <<Slice(d, 0, 3), Slice(d, 3, Len(d))>> >>)
      ELSE Raise("UnboundLocalError")

\* One data line: (time, parts) or the exception raised on it.
ParseRow(line, type) ==
  LET d == Values(Tail(line))
  IN  IF ~AllNum(line) THEN Raise("ValueError")
      ELSE IF type = "deformable"
        THEN Ok(<<line[1].v, ZipStar(<<Stride(d, 0, 3), Stride(d, 1, 3), Stride(d, 2, 3)>>) >>)
      ELSE IF type = "rigid"
        THEN IF d = <<>> THEN Raise("IndexError")
             ELSE Ok(<<line[1].v, <<Slice(d, 0, 3), <<d[Len(d)]>> \o Slice(d, 3, Len(d) - 1)>> >>)
      ELSE Raise("UnboundLocalError")

\* The record returned by parse_monitor_file: (particles_ind, times, data).
MotionRecord(indices, times, data) == [indices |-> indices, times |-> times, data |-> data]

\* A slip in line 60: data[frequency - 1::frequency], the stride counted from its end.
DownsampleFromN(data, freq) == Stride(data, freq - 1, freq)

\* Line 60: data[::frequency]
Downsample(data, freq) == Stride(data, 0, freq)

parse_monitor_file(file, freq, type) ==
  LET l1 == IF Len(file) >= 1 THEN file[1] ELSE <<>>
      digits == SelectSeq(l1, IsDigit)
      l2 == IF Len(file) >= 2 THEN file[2] ELSE <<>>
      nb_part == digits[1].v
      npieces == IF Len(l2) = 0 THEN 0 ELSE Min(nb_part, Len(l2) - 1)
      pieces == Slice(l2, Len(l2) - npieces, Len(l2))
      data == SelectSeq(Slice(file, 2, Len(file)), LAMBDA l : ~IsBlank(l))
      kept == Downsample(data, freq)
      rows == [i \in DOMAIN kept |-> ParseRow(kept[i], type)]
      bad == {i \in DOMAIN rows : ~rows[i].ok}
      first_bad == CHOOSE i \in bad : \A j \in bad : i <= j
  IN  IF digits = <<>> THEN Raise("StopIteration")
      ELSE IF ~AllNum(pieces) THEN Raise("ValueError")
      ELSE IF bad # {} THEN Raise(rows[first_bad].err)
      ELSE IF rows = <<>> THEN Raise("ValueError")
      ELSE Ok(MotionRecord(Values(pieces), [i \in DOMAIN rows |-> rows[i].val[1]], [i \in DOMAIN rows |-> rows[i].val[2]]))

\* ------------------------------------------------------ get_recording_info

get_recording_info(file) ==
  LET data == SelectSeq(file, LAMBDA l : ~IsComment(l))
  IN  IF data = <<>> THEN Raise("IndexError")
      ELSE IF IsBlank(data[Len(data)]) THEN Raise("IndexError")
      ELSE IF ~IsDigit(data[Len(data)][1]) THEN Raise("ValueError")
      ELSE IF IsBlank(data[1]) THEN Raise("IndexError")
      ELSE IF ~IsDigit(data[1][1]) THEN Raise("ValueError")
      ELSE Ok([nb_points |-> Len(data), step |-> data[1][1].v, total_time |-> data[Len(data)][1].v])

\* ------------------------------------------------------------ file system

\* A path: absolute or relative, and its components.
AbsPath(parts) == [abs |-> TRUE, parts |-> parts]

RelPath(parts) == [abs |-> FALSE, parts |-> parts]

\* os.path.join(a, b)
path_join(a, b) == IF b.abs THEN b ELSE [abs |-> a.abs, parts |-> a.parts \o b.parts]

\* os.path.dirname(p)
dirname(p) == [abs |-> p.abs, parts |-> SubSeq(p.parts, 1, Len(p.parts) - 1)]

\* The working directory of the importing process, and the manifest it is given.
cwd == AbsPath(<<"work">>)

config_path == AbsPath(<<"run", "scene.toml">>)

Header1(P) == <<Hash, Word, Num(P), Word>>

Header2(indices) == <<Hash, Word>> \o [i \in DOMAIN indices |-> Num(indices[i])]

Row(t, payload) == <<Num(t)>> \o [i \in DOMAIN payload |-> Num(payload[i])]

\* Motion logs on disk (the text the simulation's Monitor components wrote).
LogRigid == <<Header1(1), Header2(<<0>>), Row(1, <<10, 20, 30, 1, 2, 3, 9>>), Row(2, <<11, 21, 31, 4, 5, 6, 8>>)>>

LogRigidShort == <<Header1(1), Header2(<<0>>), Row(1, <<10, 20, 30, 1, 2>>)>>

LogDefA == <<Header1(2), Header2(<<7, 9>>), Row(1, <<1, 2, 3, 4, 5, 6>>), Row(2, <<7, 8, 9, 10, 11, 12>>)>>

LogDefB == <<Header1(2), Header2(<<7, 9>>), Row(1, <<21, 22, 23, 24, 25, 26>>)>>

LogDefOdd == <<Header1(2), Header2(<<7, 9>>), Row(1, <<1, 2, 3, 4, 5, 6, 7>>)>>

LogNoRows == <<Header1(1), Header2(<<0>>)>>

\* The files that exist, by absolute path.
FS == (<<"run", "die_x.txt">> :> LogRigid) @@ (<<"run", "short_x.txt">> :> LogRigidShort) @@ (<<"run", "clothA_x.txt">> :> LogDefA) @@ (<<"run", "clothB_x.txt">> :> LogDefB) @@ (<<"run", "odd_x.txt">> :> LogDefOdd) @@ (<<"run", "still_x.txt">> :> LogNoRows) @@ (<<"run", "rel_x.txt">> :> LogRigid)

\* os.path.exists(p): a relative path is looked up from the working directory.
exists(p) == path_join(cwd, p).parts \in DOMAIN FS

\* open(p).read..., or FileNotFoundError
ReadFile(p) == IF exists(p) THEN Ok(FS[path_join(cwd, p).parts]) ELSE Raise("FileNotFoundError")

\* --------------------------------------------------------------- manifest

ObjectEntry(name, mesh, type, monitor, rotation) == [name |-> name, mesh |-> mesh, type |-> type, monitor |-> monitor, scale |-> <<1, 1, 1>>, translation |-> <<1, 2, 3>>, rotation |-> rotation]

\* The [[objects]] blocks a manifest of this model is made of.
Catalog == {
    ObjectEntry("bowl", "bowl", "static", None, <<90, 0, 0>>),
    ObjectEntry("die", "die", "rigid", Some(AbsPath(<<"run", "die_x.txt">>)), <<0, 0, 90>>),
    ObjectEntry("short", "die", "rigid", Some(AbsPath(<<"run", "short_x.txt">>)), <<0, 0, 0>>),
    ObjectEntry("gone", "cube", "rigid", Some(AbsPath(<<"run", "gone_x.txt">>)), <<0, 0, 0>>),
    ObjectEntry("clothA", "cloth", "deformable", Some(AbsPath(<<"run", "clothA_x.txt">>)), <<0, 0, 0>>),
    ObjectEntry("clothB", "cloth", "deformable", Some(AbsPath(<<"run", "clothB_x.txt">>)), <<0, 0, 0>>),
    ObjectEntry("odd", "cloth", "deformable", Some(AbsPath(<<"run", "odd_x.txt">>)), <<0, 0, 0>>),
    ObjectEntry("still", "die", "rigid", Some(AbsPath(<<"run", "still_x.txt">>)), <<0, 0, 0>>),
    ObjectEntry("rel", "die", "rigid", Some(RelPath(<<"rel_x.txt">>)), <<0, 0, 0>>) }

\* The values the manifest's top-level frames key takes: absent, or set.
FrameChoices == {None, Some(5)}

\* Object lists of at most MaxObjects entries with distinct names.
ObjectLists == UNION {{s \in [1..n -> Catalog] : \A i, j \in 1..n : i # j => s[i].name # s[j].name} : n \in 0..MaxObjects}

\* The values the manifest's top-level frequency key takes (the exporter writes 1).
FrequencyChoices == {1, 2}

\* toml.load(config_path): the objects key is absent, or holds a list.
Manifests == {[frames |-> f, frequency |-> n, objects |-> o] : f \in FrameChoices, n \in FrequencyChoices, o \in {None} \cup {Some(l) : l \in ObjectLists}}

\* config.get('objects', [])
ConfigObjects(cfg) == IF cfg.objects = None THEN <<>> ELSE cfg.objects[1]

\* ------------------------------------------------------------------ state

VARIABLES
  config,        \* import_scene: the loaded manifest
  pc,            \* import_scene: where the coordinator is
  exit_code,     \* the exit code passed to exit(), if it was called
  error,         \* the exception that left import_scene uncaught, if any
  frames,        \* import_scene: the local variable frames, unbound or bound
  frame_range,   \* bpy.context.scene: (frame_start, frame_end) once init_anim has set it
  futures,       \* the pool's futures, one per submitted task, in manifest order
  yielded,       \* the futures as_completed has handed to the loop so far
  skipped,       \* the objects whose failure the loop logged ("Worker failed")
  applied,       \* the objects the loop reported ("Imported ..."), each with its handle
  result,        \* the loop's current future (index), 0 between iterations
  obj,           \* the loop's current object handle, 0 when none
  objects,       \* bpy.data.objects: the scene objects, a handle is an index
  meshes,        \* bpy.data.meshes: the geometry datablocks, by index
  mesh_cache,    \* _mesh_cache: mesh name -> geometry index
  import_calls,  \* number of external geometry imports performed
  actor,         \* the thread that took the last step
  call,          \* a call of one function on its own: its arguments and what it returned
  blenderAnimationConfig,  \* animation_exporter: the module-level manifest being accumulated
  components,    \* the components added to the simulation's nodes, in the order added
  disk,          \* the files on the exporting side: file name -> content
  warnings,      \* the mesh paths Sofa.msg_warning was called for
  toml_out       \* the manifest file written by exportAnimationConfig, if any

vars == <<config, pc, exit_code, error, frames, frame_range, futures, yielded, skipped, applied, result, obj, objects, meshes, mesh_cache, import_calls, actor, call, blenderAnimationConfig, components, disk, warnings, toml_out>>

\* The exporting side: the accumulator, the simulation's nodes and its files.
exporter == <<blenderAnimationConfig, components, disk, warnings, toml_out>>

\* The renderer's scene and the mesh cache: what only the coordinator may touch.
scene == <<frame_range, objects, meshes, mesh_cache, import_calls>>

\* The coordinator's own variables.
coord == <<config, pc, exit_code, error, frames, yielded, skipped, applied, result, obj>>

NoCall == [fn |-> "", file |-> <<>>, freq |-> 1, type |-> "", done |-> FALSE, out |-> Raise(""), built |-> FALSE, curves |-> Raise("")]

MainThread == <<"main", 0>>

Worker(k) == <<"worker", k>>

\* import_scene's local constant
frequency == 1

\* ------------------------------------------------- animation_exporter: files

\* path + suffix, a file name of the exporting side (suffix '.obj' or '_x.txt').
FileName(path, suffix) == [path |-> path, suffix |-> suffix]

\* outputDir, ~/.sofa_runs/last_sofa_run/
outputDir == AbsPath(<<"home", ".sofa_runs", "last_sofa_run">>)

\* The default prefixPath of addObjectConfig: <directory of the module>/../../../../meshes
DefaultPrefix == AbsPath(<<"pkg", "..", "..", "..", "..", "meshes">>)

\* The directories that exist on the exporting side.
Dirs == {outputDir.parts, DefaultPrefix.parts, cwd.parts}

\* The file a name designates: a relative path is looked up from the working directory.
OnDisk(path, suffix) == FileName(path_join(cwd, path).parts, suffix)

\* os.path.exists(path + suffix)
file_exists(path, suffix) == OnDisk(path, suffix) \in DOMAIN disk

\* open(path + suffix, 'w') succeeds when the directory of the file exists.
CanCreate(path, suffix) == dirname(path_join(cwd, path)).parts \in Dirs

\* The module as loaded (lines 11-17), the nodes without any component added
\* and the one mesh file the package ships.
InitExporter ==
  /\ blenderAnimationConfig = [frames |-> 2500, frequency |-> 1, objects |-> <<>>]
  /\ components = <<>>
  /\ disk = (OnDisk(path_join(DefaultPrefix, RelPath(<<"die">>)), ".obj") :> "mesh")
  /\ warnings = {}
  /\ toml_out = None

\* ------------------------------------------------------------ scene model

\* radians(x), in thousandths of a radian
radians(x) == (x * 3142) \div 180

\* array('f', ...): single precision holds integers exactly up to 2^24.
Float32(x) == IF x <= 16777216 /\ x >= -16777216 THEN x ELSE 2 * (x \div 2)

\* A freshly created scene object bound to geometry g.
NewObject(name, g) == [name |-> name, data |-> g, scale |-> <<1, 1, 1>>, location |-> <<0, 0, 0>>, rotation_euler |-> <<0, 0, 0>>, delta_location |-> <<0, 0, 0>>, delta_rotation_euler |-> <<0, 0, 0>>, rotation_mode |-> "XYZ", action |-> None]

NewMesh(name) == [name |-> name, action |-> None]

\* One f-curve: its data path, its array index and its (frame, value) points.
FCurve(data_path, index, values) == [data_path |-> data_path, index |-> index, keyframe_points |-> [i \in DOMAIN values |-> <<Float32(i), Float32(values[i])>>]]

\* ------------------------------------------------------------ track builder

\* A slip in lines 144 and 153: the recorded times are taken as the frame numbers.
RigidCurvesAtTimes(times, data) ==
  LET positions == [i \in DOMAIN data |-> data[i][1]]
      quaternions == [i \in DOMAIN data |-> data[i][2]]
      p == ZipStar(positions)
      q == ZipStar(quaternions)
      curve(data_path, index, values) == [data_path |-> data_path, index |-> index, keyframe_points |-> [i \in DOMAIN values |-> <<Float32(times[i]), Float32(values[i])>>]]
  IN  IF Len(p) # 3 \/ Len(q) # 4 THEN Raise("ValueError")
      ELSE Ok([i \in 1..3 |-> curve(<<"location">>, i - 1, p[i])] \o [i \in 1..4 |-> curve(<<"rotation_quaternion">>, i - 1, q[i])])

\* add_animation_rigid without the scene: the f-curves, or the exception raised.
RigidCurves(times, data) ==
  LET positions == [i \in DOMAIN data |-> data[i][1]]
      quaternions == [i \in DOMAIN data |-> data[i][2]]
      p == ZipStar(positions)
      q == ZipStar(quaternions)
  IN  IF Len(p) # 3 \/ Len(q) # 4 THEN Raise("ValueError")
      ELSE Ok([i \in 1..3 |-> FCurve(<<"location">>, i - 1, p[i])] \o [i \in 1..4 |-> FCurve(<<"rotation_quaternion">>, i - 1, q[i])])

\* A slip in lines 195 and 208: the tracks are addressed by position in the list, not by vertex id.
DeformableCurvesByPosition(indices, times, data) ==
  LET cols == ZipStar(data)
      n == Min(Len(indices), Len(cols))
      xyz(c) == ZipStar(cols[c])
  IN  [j \in 1..(3 * n) |-> FCurve(<<"vertices", (j - 1) \div 3, "co">>, (j - 1) % 3, xyz(((j - 1) \div 3) + 1)[((j - 1) % 3) + 1])]

\* add_animation_deformable without the scene: the f-curves of the mesh action.
DeformableCurves(indices, times, data) ==
  LET cols == ZipStar(data)
      n == Min(Len(indices), Len(cols))
      xyz(c) == ZipStar(cols[c])
  IN  [j \in 1..(3 * n) |-> FCurve(<<"vertices", indices[((j - 1) \div 3) + 1], "co">>, (j - 1) % 3, xyz(((j - 1) \div 3) + 1)[((j - 1) % 3) + 1])]

\* ----------------------------------------------------------- _process_object

\* The dictionary a task returns.
TaskResult(cfg, rec) == [mesh_name |-> cfg.mesh, obj_type |-> cfg.type, scale |-> cfg.scale, name |-> cfg.name, translation |-> cfg.translation, rotation |-> cfg.rotation, indices |-> rec.indices, times |-> rec.times, data |-> rec.data]

_process_object(config_obj, config_dir, freq) ==
  IF config_obj.type # "static"
    THEN IF config_obj.monitor = None THEN Raise("KeyError")
         ELSE LET raw == config_obj.monitor[1]
                  filename == IF ~exists(raw) THEN path_join(config_dir, raw) ELSE raw
                  file == ReadFile(filename)
                  parsed == IF file.ok THEN parse_monitor_file(file.val, freq, config_obj.type) ELSE file
              IN  IF parsed.ok THEN Ok(TaskResult(config_obj, parsed.val)) ELSE Raise(parsed.err)
    ELSE Ok(TaskResult(config_obj, MotionRecord(<<>>, <<>>, <<>>)))

\* ------------------------------------------------------------- mesh cache

\* import_mesh(mesh_name): the external importer makes a new geometry and a new object on it
\* (the .obj file is taken to exist and to hold an object).
import_mesh(mesh_name) ==
  /\ meshes' = Append(meshes, NewMesh(mesh_name))
  /\ objects' = Append(objects, NewObject(mesh_name, Len(meshes) + 1))
  /\ import_calls' = import_calls + 1
  /\ obj' = Len(objects) + 1

\* A slip in lines 230-237: the cache is not consulted, every call imports and stores anew.
ImportMeshUncached(mesh_name) ==
  /\ import_mesh(mesh_name)
  /\ mesh_cache' = (mesh_name :> (Len(meshes) + 1)) @@ mesh_cache

import_mesh_cached(mesh_name) ==
  IF mesh_name \in DOMAIN mesh_cache
    THEN /\ objects' = Append(objects, NewObject(mesh_name, mesh_cache[mesh_name]))
         /\ obj' = Len(objects) + 1
         /\ UNCHANGED <<meshes, mesh_cache, import_calls>>
    ELSE /\ import_mesh(mesh_name)
         /\ mesh_cache' = (mesh_name :> (Len(meshes) + 1)) @@ mesh_cache

\* ------------------------------------------------------------ import_scene

N == Len(ConfigObjects(config))

NotStarted == [state |-> "none", ok |-> FALSE, err |-> "", val |-> TaskResult(ObjectEntry("", "", "", None, <<>>), MotionRecord(<<>>, <<>>, <<>>))]

Running == [NotStarted EXCEPT !.state = "running"]

Finished(r) == IF r.ok THEN [state |-> "done", ok |-> TRUE, err |-> "", val |-> r.val] ELSE [NotStarted EXCEPT !.state = "done", !.err = r.err]

Init ==
  /\ config \in Manifests
  /\ pc = "Idle"
  /\ exit_code = None
  /\ error = None
  /\ frames = None
  /\ frame_range = None
  /\ futures = <<>>
  /\ yielded = {}
  /\ skipped = {}
  /\ applied = <<>>
  /\ result = 0
  /\ obj = 0
  /\ objects = <<>>
  /\ meshes = <<>>
  /\ mesh_cache = <<>>
  /\ import_calls = 0
  /\ actor = MainThread
  /\ call = NoCall
  /\ InitExporter

\* The uncaught exception e ends import_scene.
Crash(e) == pc' = "Crashed" /\ error' = Some(e)

\* A slip in line 287: only a missing objects key aborts, an empty list goes on.
LoadManifestAbsentOnly ==
  /\ pc = "Idle"
  /\ actor' = MainThread
  /\ UNCHANGED <<call, exporter>>
  /\ IF config.objects = None
       THEN pc' = "Aborted" /\ exit_code' = Some(1)
       ELSE pc' = "ManifestLoaded" /\ UNCHANGED exit_code
  /\ UNCHANGED <<config, error, frames, yielded, skipped, applied, result, obj, futures>>
  /\ UNCHANGED scene

\* Lines 282-290: load the manifest; no object, exit(1).
LoadManifest ==
  /\ pc = "Idle"
  /\ actor' = MainThread
  /\ UNCHANGED <<call, exporter>>
  /\ IF Len(ConfigObjects(config)) = 0
       THEN pc' = "Aborted" /\ exit_code' = Some(1)
       ELSE pc' = "ManifestLoaded" /\ UNCHANGED exit_code
  /\ UNCHANGED <<config, error, frames, yielded, skipped, applied, result, obj, futures>>
  /\ UNCHANGED scene

\* Lines 293-299: the objects with a monitor key whose path exists as written.
HasMonitorFile(o) == o.monitor # None /\ exists(o.monitor[1])

\* A slip in lines 293-299: the break is missing, the last monitor file wins.
LastMonitor(objs) == IF \A i \in DOMAIN objs : ~HasMonitorFile(objs[i]) THEN 0 ELSE CHOOSE i \in DOMAIN objs : HasMonitorFile(objs[i]) /\ \A j \in (i + 1)..Len(objs) : ~HasMonitorFile(objs[j])

\* Lines 293-299: the object at which the loop breaks, 0 when it runs to the end.
FirstMonitor(objs) == IF \A i \in DOMAIN objs : ~HasMonitorFile(objs[i]) THEN 0 ELSE CHOOSE i \in DOMAIN objs : HasMonitorFile(objs[i]) /\ \A j \in 1..(i - 1) : ~HasMonitorFile(objs[j])

\* Lines 292-299: the loop that looks for the first monitor file and binds frames.
ScanMonitors ==
  /\ pc = "ManifestLoaded"
  /\ actor' = MainThread
  /\ UNCHANGED <<call, exporter>>
  /\ LET objs == ConfigObjects(config)
         first == FirstMonitor(objs)
         rec_infos == get_recording_info(ReadFile(objs[first].monitor[1]).val)
     IN  IF first = 0 THEN pc' = "InitAnim" /\ UNCHANGED <<frames, error>>
         ELSE IF ~rec_infos.ok THEN Crash(rec_infos.err) /\ UNCHANGED frames
         ELSE /\ frames' = Some(IF config.frames # None THEN config.frames[1] ELSE rec_infos.val.nb_points \div frequency)
              /\ pc' = "InitAnim"
              /\ UNCHANGED error
  /\ UNCHANGED <<config, exit_code, yielded, skipped, applied, result, obj, futures>>
  /\ UNCHANGED scene

\* Lines 110-118 and 301-302: init_anim(frames, frame_start), frame_start being None.
init_anim ==
  /\ pc = "InitAnim"
  /\ actor' = MainThread
  /\ UNCHANGED <<call, exporter>>
  /\ IF frames = None
       THEN Crash("UnboundLocalError") /\ UNCHANGED frame_range
       ELSE frame_range' = Some(<<1, frames[1]>>) /\ pc' = "FrameCountResolved" /\ UNCHANGED error
  /\ UNCHANGED <<config, exit_code, frames, yielded, skipped, applied, result, obj, futures>>
  /\ UNCHANGED <<objects, meshes, mesh_cache, import_calls>>

\* Lines 305-307: one task per object is submitted to the pool.
Dispatch ==
  /\ pc = "FrameCountResolved"
  /\ actor' = MainThread
  /\ UNCHANGED <<call, exporter>>
  /\ futures' = [k \in 1..N |-> Running]
  /\ pc' = "ObjectsDispatched"
  /\ UNCHANGED <<config, exit_code, error, frames, yielded, skipped, applied, result, obj>>
  /\ UNCHANGED scene

\* Line 306: what the task submitted for each manifest entry returns or raises,
\* _process_object(cfg, config_dir, frequency).
TaskOutcome == [cfg \in Catalog |-> Finished(_process_object(cfg, dirname(config_path), frequency))]

\* A slip in lines 240-272: the task itself fetches its mesh through the cache.
TaskRunImportsMesh(k) ==
  /\ k \in DOMAIN futures
  /\ futures[k].state = "running"
  /\ actor' = Worker(k)
  /\ UNCHANGED <<call, exporter>>
  /\ futures' = [futures EXCEPT ![k] = TaskOutcome[ConfigObjects(config)[k]]]
  /\ import_mesh_cached(ConfigObjects(config)[k].mesh)
  /\ UNCHANGED <<config, pc, exit_code, error, frames, yielded, skipped, applied, result, frame_range>>

\* Lines 240-272, on a pool thread: the task of object k runs to its end.
TaskRun(k) ==
  /\ k \in DOMAIN futures
  /\ futures[k].state = "running"
  /\ actor' = Worker(k)
  /\ UNCHANGED <<call, exporter>>
  /\ futures' = [futures EXCEPT ![k] = TaskOutcome[ConfigObjects(config)[k]]]
  /\ UNCHANGED coord
  /\ UNCHANGED scene

\* Lines 309-314: as_completed yields a failed future; its exception is logged.
DrainFailure(k) ==
  /\ pc = "ObjectsDispatched"
  /\ k \in DOMAIN futures /\ k \notin yielded
  /\ futures[k].state = "done" /\ ~futures[k].ok
  /\ actor' = MainThread
  /\ UNCHANGED <<call, exporter>>
  /\ yielded' = yielded \cup {k}
  /\ skipped' = skipped \cup {k}
  /\ UNCHANGED <<config, pc, exit_code, error, frames, applied, result, obj, futures>>
  /\ UNCHANGED scene

\* Lines 309-316: as_completed yields a finished future; its mesh is looked up or imported.
ApplyMesh(k) ==
  /\ pc = "ObjectsDispatched"
  /\ k \in DOMAIN futures /\ k \notin yielded
  /\ futures[k].state = "done" /\ futures[k].ok
  /\ actor' = MainThread
  /\ UNCHANGED <<call, exporter>>
  /\ yielded' = yielded \cup {k}
  /\ result' = k
  /\ import_mesh_cached(futures[k].val.mesh_name)
  /\ pc' = "ApplyTransform"
  /\ UNCHANGED <<config, exit_code, error, frames, skipped, applied, futures, frame_range>>

\* Lines 318-333: scale, name, translation and rotation of the object (scale is a
\* list in every manifest entry of this model, so tuple(scale) does not raise).
ApplyTransform ==
  /\ pc = "ApplyTransform"
  /\ actor' = MainThread
  /\ UNCHANGED <<call, exporter>>
  /\ LET r == futures[result].val
         rotation == [i \in DOMAIN r.rotation |-> radians(r.rotation[i])]
         o1 == [objects[obj] EXCEPT !.scale = r.scale, !.name = IF r.name # "" THEN r.name ELSE @]
         o2 == IF r.obj_type = "static"
                 THEN [o1 EXCEPT !.location = r.translation, !.rotation_euler = rotation]
                 ELSE [o1 EXCEPT !.delta_location = r.translation, !.delta_rotation_euler = rotation]
     IN  objects' = [objects EXCEPT ![obj] = o2]
  /\ pc' = "ApplyTracks"
  /\ UNCHANGED <<config, exit_code, error, frames, yielded, skipped, applied, result, obj, futures>>
  /\ UNCHANGED <<frame_range, meshes, mesh_cache, import_calls>>

\* Lines 181-217: the action is built and assigned to the object's mesh.
add_animation_deformable(o, indices, times, data) ==
  /\ meshes' = [meshes EXCEPT ![objects[o].data].action = Some([name |-> <<"MeshAnimation">>, fcurves |-> DeformableCurves(indices, times, data)])]
  /\ UNCHANGED objects

\* Lines 140-141: the unpacking of the transposed rows fails.
RigidRaises(times, data) == times # <<>> /\ data # <<>> /\ ~RigidCurves(times, data).ok

\* Lines 121-178: the action is built and assigned to the object.
add_animation_rigid(o, times, data) ==
  /\ objects' = IF times = <<>> \/ data = <<>> THEN objects
                ELSE IF RigidRaises(times, data) THEN [objects EXCEPT ![o].rotation_mode = "QUATERNION"]
                ELSE [objects EXCEPT ![o].rotation_mode = "QUATERNION", ![o].action = Some([name |-> <<objects[o].name, "_RigidAnim">>, fcurves |-> RigidCurves(times, data).val])]
  /\ UNCHANGED meshes

\* Lines 335-340: the tracks of an animated object are attached; the object is reported.
ApplyTracks ==
  /\ pc = "ApplyTracks"
  /\ actor' = MainThread
  /\ UNCHANGED <<call, exporter>>
  /\ LET r == futures[result].val
     IN  /\ IF r.obj_type = "deformable" THEN add_animation_deformable(obj, r.indices, r.times, r.data)
            ELSE IF r.obj_type = "rigid" THEN add_animation_rigid(obj, r.times, r.data)
            ELSE UNCHANGED <<objects, meshes>>
         /\ IF r.obj_type = "rigid" /\ RigidRaises(r.times, r.data)
              THEN Crash("ValueError") /\ UNCHANGED <<applied, result, obj>>
              ELSE /\ applied' = (result :> obj) @@ applied
                   /\ result' = 0
                   /\ obj' = 0
                   /\ pc' = "ObjectsDispatched"
                   /\ UNCHANGED error
  /\ UNCHANGED <<config, exit_code, frames, yielded, skipped, futures>>
  /\ UNCHANGED <<frame_range, mesh_cache, import_calls>>

\* Lines 309 and 305: as_completed is exhausted and the pool is shut down.
Finish ==
  /\ pc = "ObjectsDispatched"
  /\ yielded = DOMAIN futures
  /\ actor' = MainThread
  /\ UNCHANGED <<call, exporter>>
  /\ pc' = "Done"
  /\ UNCHANGED <<config, exit_code, error, frames, yielded, skipped, applied, result, obj, futures>>
  /\ UNCHANGED scene

Next ==
  \/ LoadManifest
  \/ ScanMonitors
  \/ init_anim
  \/ Dispatch
  \/ \E k \in 1..MaxObjects + 1 : TaskRun(k)
  \/ \E k \in 1..MaxObjects + 1 : DrainFailure(k)
  \/ \E k \in 1..MaxObjects + 1 : ApplyMesh(k)
  \/ ApplyTransform
  \/ ApplyTracks
  \/ Finish

Spec == Init /\ [][Next]_vars

\* The steps of the coordinator thread.
MainSteps ==
  \/ LoadManifest
  \/ ScanMonitors
  \/ init_anim
  \/ Dispatch
  \/ \E k \in 1..MaxObjects + 1 : DrainFailure(k)
  \/ \E k \in 1..MaxObjects + 1 : ApplyMesh(k)
  \/ ApplyTransform
  \/ ApplyTracks
  \/ Finish

\* The coordinator thread keeps running, and every submitted task runs to its end.
FairSpec == Spec /\ WF_vars(MainSteps) /\ \A k \in 1..MaxObjects + 1 : WF_vars(TaskRun(k))

\* ------------------------------------------- parse_monitor_file on its own

\* Payload lengths of the rows drawn: the multiples of 3 up to 3 * MaxParticles, and some others.
PayloadLens == {3 * p : p \in 0..MaxParticles} \cup {5, 7, 8}

\* Row r of a drawn log: time r, payload value 10 * r + c in column c.
DrawnRow(r, len) == Row(r, [c \in 1..len |-> 10 * r + c])

\* A log with particle count P (the monitored indices being 7, 9, ...) and one row per
\* length in lens, a blank line after each row if blanks.
DrawnLog(P, lens, blanks) == <<Header1(P), Header2([i \in 1..P |-> 2 * i + 5])>> \o [j \in 1..(IF blanks THEN 2 * Len(lens) ELSE Len(lens)) |-> IF ~blanks THEN DrawnRow(j, lens[j]) ELSE IF j % 2 = 1 THEN DrawnRow((j + 1) \div 2, lens[(j + 1) \div 2]) ELSE <<>>]

ParseCalls == {[fn |-> "parse_monitor_file", file |-> DrawnLog(P, lens, b), freq |-> n, type |-> t, done |-> FALSE, out |-> Raise(""), built |-> FALSE, curves |-> Raise("")] : P \in 1..MaxParticles, lens \in UNION {[1..R -> PayloadLens] : R \in 0..MaxRows}, b \in BOOLEAN, n \in 1..MaxStride, t \in {"deformable", "rigid"}}

InitParse ==
  /\ call \in ParseCalls
  /\ config = [frames |-> None, frequency |-> 1, objects |-> None]
  /\ pc = "Idle"
  /\ exit_code = None
  /\ error = None
  /\ frames = None
  /\ frame_range = None
  /\ futures = <<>>
  /\ yielded = {}
  /\ skipped = {}
  /\ applied = <<>>
  /\ result = 0
  /\ obj = 0
  /\ objects = <<>>
  /\ meshes = <<>>
  /\ mesh_cache = <<>>
  /\ import_calls = 0
  /\ actor = MainThread
  /\ InitExporter

\* Lines 36-69: one call of parse_monitor_file returns or raises.
CallParse ==
  /\ call.fn = "parse_monitor_file"
  /\ ~call.done
  /\ call' = [call EXCEPT !.done = TRUE, !.out = parse_monitor_file(call.file, call.freq, call.type)]
  /\ UNCHANGED <<actor, futures>>
  /\ UNCHANGED coord
  /\ UNCHANGED scene
  /\ UNCHANGED exporter

\* Lines 335-338 with lines 121-217: the tracks add_animation_rigid or
\* add_animation_deformable builds from the record the call returned.
CallBuild ==
  /\ call.fn = "parse_monitor_file"
  /\ call.done /\ call.out.ok /\ ~call.built
  /\ LET rec == call.out.val
     IN  call' = [call EXCEPT !.built = TRUE,
                              !.curves = IF call.type = "rigid" THEN RigidCurves(rec.times, rec.data)
                                         ELSE Ok(DeformableCurves(rec.indices, rec.times, rec.data))]
  /\ UNCHANGED <<actor, futures>>
  /\ UNCHANGED coord
  /\ UNCHANGED scene
  /\ UNCHANGED exporter

NextParse == CallParse \/ CallBuild

SpecParse == InitParse /\ [][NextParse]_vars

\* ------------------------------------------- import_mesh_cached on its own

\* The mesh names asked for.
MeshNames == {"bowl", "die", "cloth"}

InitCache ==
  /\ call = [fn |-> "import_mesh_cached", names |-> <<>>, handles |-> <<>>]
  /\ config = [frames |-> None, frequency |-> 1, objects |-> None]
  /\ pc = "Idle"
  /\ exit_code = None
  /\ error = None
  /\ frames = None
  /\ frame_range = None
  /\ futures = <<>>
  /\ yielded = {}
  /\ skipped = {}
  /\ applied = <<>>
  /\ result = 0
  /\ obj = 0
  /\ objects = <<>>
  /\ meshes = <<>>
  /\ mesh_cache = <<>>
  /\ import_calls = 0
  /\ actor = MainThread
  /\ InitExporter

\* Lines 221-238: one call of import_mesh_cached; the handle it returns is recorded.
CallImportMeshCached(mesh_name) ==
  /\ call.fn = "import_mesh_cached"
  /\ Len(call.names) < MaxCalls
  /\ import_mesh_cached(mesh_name)
  /\ call' = [call EXCEPT !.names = Append(@, mesh_name), !.handles = Append(@, obj')]
  /\ UNCHANGED <<config, pc, exit_code, error, frames, yielded, skipped, applied, result>>
  /\ UNCHANGED <<frame_range, futures, actor>>
  /\ UNCHANGED exporter

NextCache == \E mesh_name \in MeshNames : CallImportMeshCached(mesh_name)

SpecCache == InitCache /\ [][NextCache]_vars

\* ------------------------------------------------------ animation_exporter

\* One component added to a node by addObject.
Component(node, type, name, fileName, indices) == [node |-> node, type |-> type, name |-> name, fileName |-> fileName, indices |-> indices]

\* list(range(n))
range(n) == [i \in 1..n |-> i - 1]

\* node.getMechanicalState().size.value and len(topologyNode.MeshExporter.position.value)
\* of the nodes of this model.
StateSize == 2

VerticesCount == 2

\* What the last call of the exporting side was and the exception it raised, if any.
Called(fn, raised) == [fn |-> fn, raised |-> raised]

\* A slip in line 183: the monitor is wired and written into the entry whatever the type.
AddObjectConfigMonitorAlways(comps, node, name, template, objectType, meshFilename, translation, rotation, scale, indices, prefixPath) ==
  LET plugin == IF \E i \in DOMAIN comps : comps[i].node = "root" /\ comps[i].name = <<"SofaValidation">> THEN <<>>
                ELSE <<Component("root", "RequiredPlugin", <<"SofaValidation">>, None, None)>>
      joined == path_join(IF prefixPath = None THEN DefaultPrefix ELSE prefixPath[1], meshFilename)
      path == IF ~file_exists(joined, ".obj") THEN meshFilename ELSE joined
      base == path_join(outputDir, RelPath(<<name>>))
      objectConfig == [mesh |-> path, type |-> objectType, name |-> name, scale |-> scale, translation |-> translation, rotation |-> rotation, monitor |-> Some(FileName(base, "_x.txt"))]
      monitor == <<Component(node, "Monitor", <<"monitor", name>>, Some(base), IF indices # None THEN indices ELSE Some(range(StateSize)))>>
  IN  /\ components' = comps \o plugin \o monitor
      /\ blenderAnimationConfig' = [blenderAnimationConfig EXCEPT !.objects = Append(@, objectConfig)]

\* Lines 112-189, comps being the components at the time of the call.
addObjectConfig(comps, node, name, template, objectType, meshFilename, translation, rotation, scale, indices, prefixPath) ==
  LET plugin == IF \E i \in DOMAIN comps : comps[i].node = "root" /\ comps[i].name = <<"SofaValidation">> THEN <<>>
                ELSE <<Component("root", "RequiredPlugin", <<"SofaValidation">>, None, None)>>
      joined == path_join(IF prefixPath = None THEN DefaultPrefix ELSE prefixPath[1], meshFilename)
      path == IF ~file_exists(joined, ".obj") THEN meshFilename ELSE joined
      base == path_join(outputDir, RelPath(<<name>>))
      objectConfig == [mesh |-> path, type |-> objectType, name |-> name, scale |-> scale, translation |-> translation, rotation |-> rotation, monitor |-> IF objectType # "static" THEN Some(FileName(base, "_x.txt")) ELSE None]
      monitor == IF objectType # "static" THEN <<Component(node, "Monitor", <<"monitor", name>>, Some(base), IF indices # None THEN indices ELSE Some(range(StateSize)))>> ELSE <<>>
  IN  /\ components' = comps \o plugin \o monitor
      /\ blenderAnimationConfig' = [blenderAnimationConfig EXCEPT !.objects = Append(@, objectConfig)]

\* Lines 19-110.
addExportComponentsToNode(name, mechaNode, indices, topologyNode, objectType, template, meshFilename, scale, translation, rotation) ==
  LET exported == meshFilename = None
      mesh == IF exported THEN path_join(outputDir, RelPath(<<name>>)) ELSE meshFilename[1]
      meshExporter == IF exported THEN <<Component(topologyNode[1], "MeshExporter", <<"MeshExporter">>, Some(mesh), None)>> ELSE <<>>
      default == IF objectType = "deformable" THEN range(VerticesCount) ELSE <<0>>
  IN  IF meshFilename = None /\ topologyNode = None
        THEN call' = Called("addExportComponentsToNode", Some("ValueError")) /\ UNCHANGED exporter
      ELSE IF objectType # "static" /\ indices = None /\ ~exported
        THEN call' = Called("addExportComponentsToNode", Some("ValueError")) /\ UNCHANGED exporter
      ELSE /\ addObjectConfig(components \o meshExporter, mechaNode, name, template, objectType, mesh, translation,
                              IF objectType = "static" THEN rotation ELSE <<0, 0, 0>>, scale,
                              IF indices = None THEN Some(default) ELSE indices, None)
           /\ call' = Called("addExportComponentsToNode", None)
           /\ UNCHANGED <<disk, warnings, toml_out>>

\* Lines 192-233.
exportAnimationConfig(filename) ==
  LET objs == blenderAnimationConfig.objects
      missing == {i \in DOMAIN objs : ~file_exists(objs[i].mesh, ".obj")}
      bad == {i \in missing : ~CanCreate(objs[i].mesh, ".obj")}
      stop == IF bad = {} THEN Len(objs) + 1 ELSE CHOOSE i \in bad : \A j \in bad : i <= j
      created == {OnDisk(objs[i].mesh, ".obj") : i \in {j \in missing : j < stop}}
  IN  /\ warnings' = warnings \cup {objs[i].mesh : i \in {j \in missing : j <= stop}}
      /\ disk' = [f \in created |-> ""] @@ disk
      /\ IF bad # {}
           THEN call' = Called("exportAnimationConfig", Some("FileNotFoundError")) /\ UNCHANGED toml_out
           ELSE /\ toml_out' = Some([file |-> path_join(outputDir, RelPath(<<filename>>)), doc |-> blenderAnimationConfig])
                /\ call' = Called("exportAnimationConfig", None)
      /\ UNCHANGED <<blenderAnimationConfig, components>>

\* The importing side does not run while the scene is being described.
ImporterIdle == UNCHANGED <<config, pc, exit_code, error, frames, frame_range, futures, yielded, skipped, applied, result, obj, objects, meshes, mesh_cache, import_calls, actor>>

\* The arguments the scene description passes.
Names == {"die", "cloth"}

ObjectTypes == {"static", "rigid", "deformable"}

MeshFilenames == {RelPath(<<"die">>), RelPath(<<"new">>), RelPath(<<"nodir", "cube">>)}

IndexChoices == {None, Some(<<7, 9>>)}

Rotation == <<0, 0, 90>>

InitExport ==
  /\ call = Called("", None)
  /\ config = [frames |-> None, frequency |-> 1, objects |-> None]
  /\ pc = "Idle"
  /\ exit_code = None
  /\ error = None
  /\ frames = None
  /\ frame_range = None
  /\ futures = <<>>
  /\ yielded = {}
  /\ skipped = {}
  /\ applied = <<>>
  /\ result = 0
  /\ obj = 0
  /\ objects = <<>>
  /\ meshes = <<>>
  /\ mesh_cache = <<>>
  /\ import_calls = 0
  /\ actor = MainThread
  /\ InitExporter

\* The scene description calls addObjectConfig (indices and prefixPath left to their defaults).
CallAddObjectConfig ==
  /\ Len(blenderAnimationConfig.objects) < MaxRegistrations
  /\ \E name \in Names, objectType \in ObjectTypes, meshFilename \in MeshFilenames :
       addObjectConfig(components, "body", name, "Rigid3", objectType, meshFilename, <<1, 2, 3>>, Rotation, <<1, 1, 1>>, None, None)
  /\ call' = Called("addObjectConfig", None)
  /\ UNCHANGED <<disk, warnings, toml_out>>
  /\ ImporterIdle

\* The scene description calls addExportComponentsToNode (the mesh exported, or a shipped one named).
CallAddExportComponentsToNode ==
  /\ Len(blenderAnimationConfig.objects) < MaxRegistrations
  /\ \E name \in Names, objectType \in ObjectTypes, meshFilename \in {None, Some(RelPath(<<"die">>))}, indices \in IndexChoices, topologyNode \in {None, Some("visual")} :
       addExportComponentsToNode(name, "body", indices, topologyNode, objectType, "Rigid3", meshFilename, <<1, 1, 1>>, <<1, 2, 3>>, Rotation)
  /\ ImporterIdle

\* The scene description calls exportAnimationConfig.
CallExportAnimationConfig ==
  /\ exportAnimationConfig("scene_config.toml")
  /\ ImporterIdle

NextExport == CallAddObjectConfig \/ CallAddExportComponentsToNode \/ CallExportAnimationConfig

SpecExport == InitExport /\ [][NextExport]_vars

\* ================================================================= claims

Objs == ConfigObjects(config)

\* The motion log the task of object o opens: the path as written if it exists, else under the manifest's directory.
TaskLogPath(o) == IF exists(o.monitor[1]) THEN o.monitor[1] ELSE path_join(dirname(config_path), o.monitor[1])

HasTaskLog(o) == o.type # "static" /\ o.monitor # None /\ exists(TaskLogPath(o))

TaskLog(o) == FS[path_join(cwd, TaskLogPath(o)).parts]

\* The non-blank lines after the two header lines.
DataRows(file) == SelectSeq(SubSeq(file, 3, Len(file)), LAMBDA l : l # <<>>)

Failed == {k \in DOMAIN futures : futures[k].state = "done" /\ ~futures[k].ok}

Succeeded == {k \in DOMAIN futures : futures[k].state = "done" /\ futures[k].ok}

\* C1: once the task of some object has failed, the import does not end in an
\* uncaught error, and when it is Done the failed objects are exactly the
\* skipped ones and every object whose task succeeded has been applied.
C1_PartialFailure ==
  Failed # {} =>
    /\ pc # "Crashed"
    /\ pc = "Done" => (skipped = Failed /\ DOMAIN applied = Succeeded)

\* A finished import that skipped a failed object and applied another.
C1_Witness == pc = "Done" /\ skipped # {} /\ DOMAIN applied # {} /\ skipped = Failed

\* The futures handed to the loop whose apply has not ended.
InProgress == yielded \ (skipped \cup DOMAIN applied)

\* C2: at most one apply is in progress; every step that changes the scene, the
\* mesh cache or the loop's progress is a step of the coordinator thread; and
\* what a finished task returned is what _process_object computes from its
\* manifest entry and the files alone, whatever the scene and the cache hold.
C2_SingleThreadedApply ==
  /\ [](Cardinality(InProgress) <= 1)
  /\ []((pc \in {"ApplyTransform", "ApplyTracks"}) => InProgress = {result})
  /\ [][(scene' # scene \/ obj' # obj \/ yielded' # yielded \/ applied' # applied) => actor' = MainThread]_vars
  /\ [](\A k \in DOMAIN futures : futures[k].state = "done" => futures[k] = Finished(_process_object(Objs[k], dirname(config_path), frequency)))

\* An apply is in progress while a preparation task is still running.
C2_Witness == pc = "ApplyTransform" /\ \E k \in DOMAIN futures : futures[k].state = "running"

\* What the scene holds for manifest object k once it is applied.
FinalView(k) ==
  LET o == objects[applied[k]]
  IN  [name |-> o.name, scale |-> o.scale, location |-> o.location, rotation_euler |-> o.rotation_euler,
       delta_location |-> o.delta_location, delta_rotation_euler |-> o.delta_rotation_euler,
       shares |-> {j \in DOMAIN applied : objects[applied[j]].data = o.data},
       object_tracks |-> o.action, geometry_tracks |-> meshes[o.data].action]

\* What the scene holds for object k when the results are applied in manifest order.
ManifestOrderView(k) ==
  LET r == futures[k].val
      same == {j \in Succeeded : futures[j].val.mesh_name = r.mesh_name}
      defs == {j \in same : futures[j].val.obj_type = "deformable"}
      last == CHOOSE j \in defs : \A i \in defs : i <= j
      rot == [i \in DOMAIN r.rotation |-> radians(r.rotation[i])]
      static == r.obj_type = "static"
  IN  [name |-> r.name, scale |-> r.scale,
       location |-> IF static THEN r.translation ELSE <<0, 0, 0>>,
       rotation_euler |-> IF static THEN rot ELSE <<0, 0, 0>>,
       delta_location |-> IF static THEN <<0, 0, 0>> ELSE r.translation,
       delta_rotation_euler |-> IF static THEN <<0, 0, 0>> ELSE rot,
       shares |-> same,
       object_tracks |-> IF r.obj_type = "rigid" THEN Some([name |-> <<r.name, "_RigidAnim">>, fcurves |-> RigidCurves(r.times, r.data).val]) ELSE None,
       geometry_tracks |-> IF defs = {} THEN None ELSE Some([name |-> <<"MeshAnimation">>, fcurves |-> DeformableCurves(futures[last].val.indices, futures[last].val.times, futures[last].val.data)])]

\* C3: the scene of a finished import is the one that applying the results in
\* manifest order gives, whatever the order in which the tasks completed.
C3_OrderIndependent == pc = "Done" => \A k \in DOMAIN applied : FinalView(k) = ManifestOrderView(k)

\* C4: with no object in the manifest (the list empty or absent) the import
\* goes from Idle to Aborted with exit code 1 and nowhere else, raises nothing,
\* and frame range, tasks, scene objects and mesh cache stay untouched.
C4_EmptyManifestAborts ==
  /\ Len(Objs) = 0 =>
       /\ pc \in {"Idle", "Aborted"}
       /\ pc = "Aborted" => exit_code = Some(1)
       /\ error = None /\ frames = None /\ frame_range = None
       /\ futures = <<>> /\ objects = <<>> /\ meshes = <<>>
       /\ DOMAIN mesh_cache = {} /\ import_calls = 0
  /\ pc = "Aborted" => Len(Objs) = 0

\* The import of a manifest with an empty object list has aborted.
C4_Witness == pc = "Aborted" /\ config.objects = Some(<<>>) /\ exit_code = Some(1)

\* No object has a monitor path that exists, as written or under the manifest's directory.
NoUsableMonitor == \A i \in DOMAIN Objs : ~HasTaskLog(Objs[i])

\* C5: a non-empty manifest without any usable monitor path does not make the
\* import fail before the tasks are dispatched.
C5_FrameCountFallback == (Len(Objs) > 0 /\ NoUsableMonitor) => ~(pc = "Crashed" /\ futures = <<>>)

\* The lines of a file that do not start with '#'.
NonCommentLines(file) == Cardinality({i \in DOMAIN file : ~IsComment(file[i])})

ZeroRowLog(o) == HasTaskLog(o) /\ Len(TaskLog(o)) >= 2 /\ (\E i \in DOMAIN TaskLog(o)[1] : IsDigit(TaskLog(o)[1][i])) /\ DataRows(TaskLog(o)) = <<>>

\* C7: the task of an animated object with a zero-row log succeeds with an
\* empty sample sequence; the object is never skipped, and in a finished import
\* it is in the scene with its translation and scale and without tracks.
C7_NoSamples ==
  \A k \in DOMAIN Objs : ZeroRowLog(Objs[k]) =>
    /\ k \notin skipped
    /\ (k \in DOMAIN futures /\ futures[k].state = "done") => (futures[k].ok /\ futures[k].val.times = <<>>)
    /\ pc = "Done" => /\ k \in DOMAIN applied
                      /\ objects[applied[k]].action = None
                      /\ objects[applied[k]].delta_location = Objs[k].translation
                      /\ objects[applied[k]].scale = Objs[k].scale

\* A finished import skipped an object whose log has no data row.
C7_Witness == pc = "Done" /\ \E k \in skipped : ZeroRowLog(Objs[k]) /\ futures[k].err = "ValueError"

\* A rigid object whose log has a data row with fewer than 7 payload values.
ShortRigidRow(o) == o.type = "rigid" /\ HasTaskLog(o) /\ \E i \in DOMAIN DataRows(TaskLog(o)) : Len(DataRows(TaskLog(o))[i]) - 1 < 7

\* C8: the task of a rigid object with a short row fails, so the object is
\* never handed to the apply phase, no scene object is created for it and the
\* import never ends in an uncaught error while applying it.
C8_RigidPayloadValidation ==
  \A k \in DOMAIN Objs : ShortRigidRow(Objs[k]) =>
    /\ (k \in DOMAIN futures /\ futures[k].state = "done") => ~futures[k].ok
    /\ result # k
    /\ k \notin DOMAIN applied

\* The import ended in an uncaught ValueError while applying an object with a short rigid row.
C8_Witness == pc = "Crashed" /\ error = Some("ValueError") /\ result # 0 /\ ShortRigidRow(Objs[result]) /\ futures[result].ok

\* C9: a call for kind deformable fails when some data row's payload is not 3
\* values per particle of the header; a record it returns has, in every sample,
\* one 3-vector per particle index.
C9_DeformablePayload ==
  (call.done /\ call.type = "deformable") =>
    LET rows == Stride(DataRows(call.file), 0, call.freq)
        P == Len(call.file[2]) - 2
    IN  /\ (\E i \in DOMAIN rows : Len(rows[i]) - 1 # 3 * P) => ~call.out.ok
        /\ call.out.ok => \A i \in DOMAIN call.out.val.data : Len(call.out.val.data[i]) = Len(call.out.val.indices)

\* A log whose every data row has the payload length of its kind.
ValidLog(file, type) == \A i \in DOMAIN DataRows(file) : Len(DataRows(file)[i]) - 1 = IF type = "rigid" THEN 7 ELSE 3 * (Len(file[2]) - 2)

\* C10: a record returned for a log with R data rows and stride N has
\* ceil(R / N) timestamps and as many samples, the j-th of them taken from row
\* (j - 1) * N (row 0 first; every row when N = 1); and a valid log with at
\* least one row is parsed.
C10_Downsampling ==
  call.done =>
    LET rows == DataRows(call.file)
        R == Len(rows)
        n == call.freq
    IN  /\ call.out.ok =>
             LET rec == call.out.val
             IN  /\ Len(rec.times) = (R + n - 1) \div n
                 /\ Len(rec.data) = Len(rec.times)
                 /\ rec.times[1] = rows[1][1].v
                 /\ \A j \in DOMAIN rec.times : rec.times[j] = rows[(j - 1) * n + 1][1].v
                 /\ \A j \in DOMAIN rec.data : (Len(rec.data[j]) >= 1 /\ rec.data[j][1] # <<>>) => rec.data[j][1][1] = rows[(j - 1) * n + 1][2].v
                 /\ n = 1 => Len(rec.times) = R
        /\ (ValidLog(call.file, call.type) /\ R >= 1) => call.out.ok

\* A valid log of three rows with blank lines between them was parsed with stride 2.
C10_Witness == call.done /\ call.out.ok /\ call.freq = 2 /\ Len(DataRows(call.file)) = 3 /\ Len(call.file) = 8 /\ ValidLog(call.file, call.type)

\* C11: the task of every animated object parses its log with the stride the
\* manifest's frequency key gives: a log of R data rows yields
\* ceil(R / frequency) samples, hence as many keyframes per track.
C11_ManifestStride ==
  \A k \in DOMAIN futures : (futures[k].state = "done" /\ futures[k].ok /\ Objs[k].type # "static") =>
    Len(futures[k].val.times) = (Len(DataRows(TaskLog(Objs[k]))) + config.frequency - 1) \div config.frequency

\* A finished import under frequency 2 gave a rigid object one keyframe per data row of its two-row log.
C11_Witness ==
  /\ pc = "Done" /\ config.frequency = 2
  /\ \E k \in DOMAIN applied : /\ Objs[k].type = "rigid" /\ Len(DataRows(TaskLog(Objs[k]))) = 2
                                /\ objects[applied[k]].action # None
                                /\ \A c \in DOMAIN objects[applied[k]].action[1].fcurves : Len(objects[applied[k]].action[1].fcurves[c].keyframe_points) = 2

\* The rows a call keeps (every call.freq-th data row) and the payload of one of them.
KeptRows == Stride(DataRows(call.file), 0, call.freq)

Payload(row) == Values(Tail(row))

\* The particle indices written in the second header line.
HeaderIndices == Values(SubSeq(call.file[2], 3, Len(call.file[2])))

\* The tracks built from the record of a call that returned.
Built == call.built /\ call.curves.ok

\* C12: every track built from a record of K >= 1 samples has K keyframes, the
\* i-th at frame i and carrying the i-th sample's value of the track's channel,
\* whatever the timestamps are; a rigid record gets 7 tracks, a deformable
\* record of a valid log 3 tracks per particle index.
C12_FrameNumbering ==
  Built =>
    LET rec == call.out.val
        K == Len(rec.times)
        cs == call.curves.val
        sample(i, c) == IF call.type = "rigid" THEN (IF c <= 3 THEN rec.data[i][1][c] ELSE rec.data[i][2][c - 3])
                        ELSE rec.data[i][((c - 1) \div 3) + 1][((c - 1) % 3) + 1]
    IN  /\ K >= 1 /\ Len(rec.data) = K
        /\ call.type = "rigid" => Len(cs) = 7
        /\ (call.type = "deformable" /\ ValidLog(call.file, call.type)) => Len(cs) = 3 * Len(rec.indices)
        /\ \A c \in DOMAIN cs :
             /\ Len(cs[c].keyframe_points) = K
             /\ \A i \in 1..K : cs[c].keyframe_points[i] = <<i, Float32(sample(i, c))>>

\* Tracks of two keyframes were built from samples whose timestamps are 1 and 3.
C12_Witness == Built /\ call.out.val.times = <<1, 3>> /\ call.curves.val # <<>> /\ Len(call.curves.val[1].keyframe_points) = 2

\* C13: for a rigid log whose rows hold 7 payload values px py pz qx qy qz qw,
\* the tracks are location[0..2] and rotation_quaternion[0..3] in that order,
\* and at the frame of each kept row they hold px, py, pz and qw, qx, qy, qz.
C13_RigidChannels ==
  (call.built /\ call.type = "rigid" /\ ValidLog(call.file, call.type)) =>
    /\ call.curves.ok
    /\ LET cs == call.curves.val
            at(c, i) == cs[c].keyframe_points[i][2]
        IN  /\ [c \in DOMAIN cs |-> <<cs[c].data_path, cs[c].index>>] =
                 << <<<<"location">>, 0>>, <<<<"location">>, 1>>, <<<<"location">>, 2>>,
                    <<<<"rotation_quaternion">>, 0>>, <<<<"rotation_quaternion">>, 1>>,
                    <<<<"rotation_quaternion">>, 2>>, <<<<"rotation_quaternion">>, 3>> >>
            /\ \A i \in DOMAIN KeptRows :
                 LET d == Payload(KeptRows[i])
                 IN  /\ <<at(1, i), at(2, i), at(3, i)>> = <<d[1], d[2], d[3]>>
                     /\ <<at(4, i), at(5, i), at(6, i), at(7, i)>> = <<d[7], d[4], d[5], d[6]>>

\* Rigid tracks were built from a valid log of two or more kept rows.
C13_Witness == Built /\ call.type = "rigid" /\ ValidLog(call.file, call.type) /\ Len(KeptRows) >= 2

\* C14: for a deformable log whose rows hold 3 values per particle, the k-th
\* payload triple of each kept row is, at that row's frame, the value of the
\* x, y and z tracks addressed vertices[ik].co, ik being the k-th particle
\* index of the header; and no other track is built.
C14_DeformableAddressing ==
  (call.built /\ call.type = "deformable" /\ ValidLog(call.file, call.type)) =>
    /\ call.curves.ok
    /\ LET cs == call.curves.val
            ix == HeaderIndices
        IN  /\ Len(cs) = 3 * Len(ix)
            /\ \A k \in DOMAIN ix : \A a \in 1..3 :
                 LET on == {c \in DOMAIN cs : cs[c].data_path = <<"vertices", ix[k], "co">> /\ cs[c].index = a - 1}
                 IN  /\ Cardinality(on) = 1
                     /\ \A c \in on : \A i \in DOMAIN KeptRows : cs[c].keyframe_points[i] = <<i, Payload(KeptRows[i])[3 * (k - 1) + a]>>

\* Deformable tracks were built for the particle indices 7 and 9 of a valid log.
C14_Witness == Built /\ call.type = "deformable" /\ ValidLog(call.file, call.type) /\ HeaderIndices = <<7, 9>> /\ Len(call.curves.val) = 6

\* The first call that asked for the mesh name of call i.
FirstCall(i) == CHOOSE f \in DOMAIN call.names : call.names[f] = call.names[i] /\ \A g \in 1..(f - 1) : call.names[g] # call.names[i]

\* C15: after any sequence of import_mesh_cached calls there were as many
\* external imports (and there are as many geometries) as distinct mesh names
\* asked for; the handles returned are pairwise distinct; the handles of one
\* name, and no others, are bound to the geometry the first import of that name
\* made; and an entry of the cache, once stored, is never replaced.
C15_MeshCache ==
  /\ [](LET calls == DOMAIN call.names
             geometry(i) == objects[call.handles[i]].data
         IN  /\ import_calls = Cardinality({call.names[i] : i \in calls})
             /\ Len(meshes) = import_calls
             /\ Len(objects) = Len(call.names)
             /\ \A i, j \in calls : i # j => call.handles[i] # call.handles[j]
             /\ \A i \in calls : /\ geometry(i) = geometry(FirstCall(i))
                                  /\ geometry(i) = mesh_cache[call.names[i]]
             /\ \A i, j \in calls : call.names[i] # call.names[j] => geometry(i) # geometry(j))
  /\ [][\A m \in DOMAIN mesh_cache : m \in DOMAIN mesh_cache' /\ mesh_cache'[m] = mesh_cache[m]]_vars

\* Two calls for one mesh name were followed by a call for another and a fourth for the first.
C15_Witness ==
  /\ call.fn = "import_mesh_cached" /\ Len(call.names) = 4
  /\ call.names[1] = call.names[2] /\ call.names[3] # call.names[1] /\ call.names[4] = call.names[1]
  /\ import_calls = 2

\* The registered entries, and the Monitor components added to the nodes.
Entries == blenderAnimationConfig.objects

Monitors == SelectSeq(components, LAMBDA c : c.type = "Monitor")

\* C16: after any registrations an entry has a monitor field exactly when its
\* type is not 'static'; the Monitor components are, in order, those of the
\* non-static entries, each on the host node and writing to the path that,
\* with '_x.txt' appended, is the entry's monitor field.
C16_MonitorIffNonStatic ==
  LET animated == SelectSeq(Entries, LAMBDA o : o.type # "static")
  IN  /\ \A i \in DOMAIN Entries : (Entries[i].monitor # None) <=> (Entries[i].type # "static")
      /\ Len(Monitors) = Len(animated)
      /\ \A i \in DOMAIN Monitors :
           /\ Monitors[i].node = "body"
           /\ Monitors[i].name = <<"monitor", animated[i].name>>
           /\ animated[i].monitor = Some(FileName(Monitors[i].fileName[1], "_x.txt"))

\* A static and an animated object are registered; one Monitor was added.
C16_Witness ==
  /\ Len(Entries) = 2 /\ Len(Monitors) = 1
  /\ \E i, j \in DOMAIN Entries : Entries[i].type = "static" /\ Entries[j].type # "static"

\* C17: after any registrations no two entries have the same name and no two
\* entries have the same monitor path.
C17_UniqueNames ==
  \A i, j \in DOMAIN Entries : i # j =>
    /\ Entries[i].name # Entries[j].name
    /\ (Entries[i].monitor # None /\ Entries[j].monitor # None) => Entries[i].monitor # Entries[j].monitor

\* One name was registered twice as an animated object: two entries, two Monitors, one monitor file.
C17_Witness ==
  /\ Len(Entries) = 2 /\ Entries[1].name = Entries[2].name
  /\ Entries[1].monitor # None /\ Entries[1].monitor = Entries[2].monitor
  /\ Len(Monitors) = 2

\* C18: exportAnimationConfig never raises; when it has returned, the mesh file
\* of every entry exists, a warning was recorded for each path it found
\* missing, and the manifest written holds the registered entries in
\* registration order; and the call leaves the entry list and every existing
\* file as they were, a file it creates being empty.
C18_ExportFinalize ==
  /\ [](call.fn = "exportAnimationConfig" =>
          /\ call.raised = None
          /\ \A i \in DOMAIN Entries : file_exists(Entries[i].mesh, ".obj")
          /\ \A i \in DOMAIN Entries : disk[OnDisk(Entries[i].mesh, ".obj")] = "" => Entries[i].mesh \in warnings
          /\ toml_out # None /\ toml_out[1].doc = blenderAnimationConfig)
  /\ [][(call'.fn = "exportAnimationConfig" /\ (disk' # disk \/ warnings' # warnings \/ toml_out' # toml_out \/ call' # call)) =>
          /\ blenderAnimationConfig' = blenderAnimationConfig
          /\ \A f \in DOMAIN disk : f \in DOMAIN disk' /\ disk'[f] = disk[f]
          /\ \A f \in DOMAIN disk' \ DOMAIN disk : disk'[f] = "" /\ f.path \in {OnDisk(m, ".obj").path : m \in warnings'}]_vars

\* An export returned after creating a placeholder for a missing mesh of one of two entries.
C18_Witness ==
  /\ call = Called("exportAnimationConfig", None)
  /\ Len(Entries) = 2 /\ toml_out # None /\ toml_out[1].doc = blenderAnimationConfig
  /\ \E i, j \in DOMAIN Entries : /\ disk[OnDisk(Entries[i].mesh, ".obj")] = "" /\ Entries[i].mesh \in warnings
                                    /\ disk[OnDisk(Entries[j].mesh, ".obj")] = "mesh"

\* The rotation of the entry, as import_scene converts it.
EntryRotation(o) == [i \in DOMAIN o.rotation |-> radians(o.rotation[i])]

\* C19: an applied object that is not static has had no rotation property set
\* from its entry's rotation; a static one has the entry's rotation as its
\* rotation_euler.
C19_NonStaticRotationIgnored ==
  \A k \in DOMAIN applied :
    LET o == objects[applied[k]]
    IN  IF Objs[k].type = "static"
          THEN o.rotation_euler = EntryRotation(Objs[k]) /\ o.delta_rotation_euler = <<0, 0, 0>>
          ELSE o.rotation_euler = <<0, 0, 0>> /\ o.delta_rotation_euler = <<0, 0, 0>>

\* A finished import gave a rigid object its entry's rotation of 90 degrees as delta rotation.
C19_Witness ==
  /\ pc = "Done"
  /\ \E k \in DOMAIN applied : /\ Objs[k].type = "rigid" /\ Objs[k].rotation = <<0, 0, 90>>
                                /\ objects[applied[k]].delta_rotation_euler = EntryRotation(Objs[k])
                                /\ objects[applied[k]].delta_rotation_euler # <<0, 0, 0>>

\* What holds of a finished import: every object was applied or skipped and
\* none both, only objects whose task succeeded were applied, one scene object
\* each, and no task is pending or unprocessed.
Drained ==
  /\ DOMAIN applied \cap skipped = {}
  /\ DOMAIN applied \cup skipped = DOMAIN Objs
  /\ \A k \in DOMAIN applied : futures[k].ok
  /\ \A k \in skipped : ~futures[k].ok
  /\ Len(objects) = Cardinality(DOMAIN applied)
  /\ \A k, l \in DOMAIN applied : k # l => applied[k] # applied[l]
  /\ DOMAIN futures = DOMAIN Objs
  /\ \A k \in DOMAIN futures : futures[k].state = "done" /\ k \in yielded
  /\ result = 0

\* C20: with a non-empty manifest, the coordinator running and every task
\* ending, the import eventually is Done; and whenever it is Done it is drained.
C20_DrainCompleteness ==
  /\ (pc = "Idle" /\ Len(Objs) > 0) ~> (pc = "Done")
  /\ [](pc = "Done" => Drained)

\* A finished import applied every object of a manifest of two or more.
C20_Witness == pc = "Done" /\ Len(Objs) >= 2 /\ skipped = {} /\ DOMAIN applied = DOMAIN Objs /\ Drained

\* The objects whose task can resolve and open its monitor path, as written or under the manifest's directory.
Usable == {i \in DOMAIN Objs : HasTaskLog(Objs[i])}

\* C21: once the frame-count step has run, if some object's monitor path is one
\* its task can open (and the log has a data row to count), the frame count is
\* bound: to the manifest's frames value, else to the sample count of the
\* first such object's log; in particular when the paths exist only under the
\* manifest's directory.
C21_MonitorResolution ==
  (pc \in {"InitAnim", "FrameCountResolved", "ObjectsDispatched", "ApplyTransform", "ApplyTracks", "Done", "Crashed"} /\ Usable # {}) =>
    LET first == CHOOSE i \in Usable : \A j \in Usable : i <= j
        log == TaskLog(Objs[first])
    IN  get_recording_info(log).ok =>
          frames = Some(IF config.frames # None THEN config.frames[1] ELSE NonCommentLines(log))

\* The import ended with the frame count unbound although the only object's
\* monitor path exists under the manifest's directory.
C21_Witness ==
  /\ pc = "Crashed" /\ error = Some("UnboundLocalError") /\ frames = None
  /\ Len(Objs) = 1 /\ HasTaskLog(Objs[1]) /\ ~HasMonitorFile(Objs[1])
  /\ ~Objs[1].monitor[1].abs

====
